---- MODULE Spec2Model ----
(***************************************************************************)
(* Model of agent-tools/src/tools/youtube-upload.tool.ts: the credential   *)
(* lifecycle (getCredentials, refreshToken, doOAuthFlow, saveToken) and    *)
(* the upload that uses the credential (execute); and of the polling of    *)
(* the two generation tools, tools/image-generator.tool.ts (execute,       *)
(* pollForImage) and the ThumbnailGeneratorTool (execute).                 *)
(*                                                                         *)
(* JavaScript runs one callback at a time: every action below is one       *)
(* synchronous stretch of code between two awaits (or one event-loop       *)
(* callback).  The clock (Date.now()) advances between them.               *)
(***************************************************************************)
EXTENDS Integers, FiniteSets, Sequences, TLC

----------------------------------------------------------------------------
(* Bounds of the model *)

\* Date.now() when execute is called (milliseconds)
StartTime == 400000
\* the clock takes the values StartTime + TimeoutMs * p, for p in 0..MaxPeriods
MaxPeriods == 1
\* callback requests the local listener receives during one flow
MaxCallbacks == 2
\* expires_in values (seconds) the token endpoint reports
MaxLifetime == 300

\* attempt budgets pollForImage is called with, besides its default
MaxBudget == 3

\* line 141: the deadline of the interactive flow (milliseconds)
TimeoutMs == 300000

\* line 79: the port of the default redirect URI
DefaultRedirectPort == 3001
\* line 140: the port the callback listener binds
ListenPort == 8080
\* the ports of an http and an https URL that names none
HttpPort == 80
HttpsPort == 443

\* image-generator.tool.ts line 82: the default of maxAttempts
DefaultMaxAttempts == 20
\* image-generator.tool.ts line 84: pollInterval (milliseconds)
PollInterval == 3000
\* ThumbnailGeneratorTool.execute: maxAttempts and pollInterval
ThumbnailMaxAttempts == 20
ThumbnailPollInterval == 3000

----------------------------------------------------------------------------
(* JavaScript values *)

\* a property that is missing, or whose value is undefined
Undefined == "undefined"

\* numbers, NaN and null as they occur in the expiry field
Num(n) == [t |-> "number", v |-> n]
NaN == [t |-> "NaN", v |-> 0]
Null == [t |-> "null", v |-> 0]
UndefinedNum == [t |-> "undefined", v |-> 0]

IsNum(x) == x.t = "number"

\* truthiness of a string-or-undefined value (the empty string never occurs)
TruthyStr(s) == s # Undefined

\* truthiness of a number-or-NaN-or-null value
TruthyNum(x) == IsNum(x) /\ x.v # 0

\* x * 1000 for a number or undefined x (undefined * 1000 is NaN)
Times1000(x) == IF IsNum(x) THEN Num(x.v * 1000) ELSE NaN

\* t + x for the clock value t and a number or NaN x
PlusNow(t, x) == IF IsNum(x) THEN Num(t + x.v) ELSE NaN

\* a credential as the code builds it (lines 67-71 and 121-125)
Credential(a, r, e) == [access_token |-> a, refresh_token |-> r, expiry |-> e]

\* JSON.parse(JSON.stringify(c)): undefined properties are dropped and read
\* back as undefined, NaN is written as null
JSONstringify(c) ==
    [c EXCEPT !.expiry = IF c.expiry.t = "NaN" THEN Null ELSE @]

\* the content of a token file that does not exist
NoDocument == Credential(Undefined, Undefined, UndefinedNum)

----------------------------------------------------------------------------
(* Inputs drawn by the environment *)

Lifetimes == {Num(MaxLifetime)}

\* what a POST to the token endpoint can produce:
\*   "throw"    fetch rejects (network error)
\*   "bad_json" the body is not JSON (response.json() rejects)
\*   "json"     a JSON body, with any HTTP status
TokenResponses ==
    { [kind |-> k, ok |-> k = "bad_json", error |-> Undefined,
       access_token |-> Undefined, refresh_token |-> Undefined,
       expires_in |-> UndefinedNum] : k \in {"throw", "bad_json"} }
    \cup
    [kind : {"json"}, ok : BOOLEAN, error : {Undefined, "invalid_grant"},
     access_token : {Undefined, "B"}, refresh_token : {Undefined, "R"},
     expires_in : {UndefinedNum} \cup Lifetimes]

\* process.env.OAUTH_REDIRECT_URL: unset, or the base URL of the redirect
\* (port 0: the URL names no port)
NoOverride == [scheme |-> "none", port |-> 0]
RedirectOverrides ==
    {NoOverride, [scheme |-> "http", port |-> ListenPort],
     [scheme |-> "https", port |-> 0]}

\* lines 77-79: the port of redirect_uri
RedirectPort(override) ==
    IF override = NoOverride THEN DefaultRedirectPort
    ELSE IF override.port # 0 THEN override.port
    ELSE IF override.scheme = "https" THEN HttpsPort
    ELSE HttpPort

\* when a previous run of the tool wrote the token file: a lifetime before
\* the start, give or take a millisecond
PreviousTimes == { StartTime - MaxLifetime * 1000 + d : d \in {-1, 0, 1} }

\* the values Date.now() takes: five-minute periods after the start
Times == { StartTime + TimeoutMs * p : p \in 0..MaxPeriods }

----------------------------------------------------------------------------
VARIABLES
    now,             \* Date.now()
    tokenFileExists, \* fs.existsSync(TOKEN_FILE)
    tokenFile,       \* the parsed content of TOKEN_FILE
    secretFileExists,\* CLIENT_SECRET_FILE can be read
    redirectOverride,\* process.env.OAUTH_REDIRECT_URL
    pc,              \* position of execute / getCredentials
    error,           \* the error execute threw ("none" while it has not)
    credentials,     \* what getCredentials returned to execute
    retSource,       \* the path that returned it: cache, refresh, oauth
    tokenData,       \* the stored credential getCredentials read (line 29)
    listener,        \* the http server: none, listening, closed
    urlPresented,    \* the authorization URL has been printed
    redirectPort,    \* the port of redirect_uri (0: not computed yet)
    noCodeSeen,      \* a callback request without a code has been received
    promise,         \* of doOAuthFlow: none, pending, resolved, rejected
    settledBy,       \* the exit path that settled it
    deadline,        \* when the setTimeout callback is due (-1: no timer)
    callbacks,       \* callback requests the listener has received
    inflight,        \* request handlers awaiting the token exchange
    refreshAttempts, \* calls of refreshToken in this getCredentials call
    refreshFailed,   \* the catch block of line 40 ran
    refreshStatus,   \* how the refresh request ended: none, throw, http_error,
                     \* bad_json, ok (a JSON body with a success status)
    oauthStarts,     \* calls of doOAuthFlow in this getCredentials call
    writes,          \* saveToken calls on behalf of this getCredentials call
    netRequests,     \* requests sent to the token endpoint in this call
    sent,            \* authenticated requests sent by this upload
    isUrl,           \* input.thumbnailFile is a URL (line 162)
    videoId,         \* result.id of the primary upload (line 213)
    resultKeys,      \* the keys of the object execute returned
    tool,            \* the generation tool whose execute runs (none: upload)
    ppc,             \* position of the generation tool's execute
    maxAttempts,     \* the attempt budget of the polling loop
    taskIdAt,        \* where the submit answer held the task id (none:
                     \* nowhere, or no JSON answer yet)
    attempt,         \* the loop variable of the polling loop
    timer,           \* the delay of the armed sleep timer (0: none armed)
    sleeps,          \* sleeps the polling loop has started
    requests,        \* status requests the polling loop has issued
    lastPoll,        \* what the last status response reported
    result,          \* what execute returned
    fileBytes,       \* how much of its document TOKEN_FILE holds on disk
    writerPc,        \* where a writeFileSync of TOKEN_FILE stands
    pendingDoc,      \* the document that writeFileSync is writing
    readerSaw        \* what a readFileSync of TOKEN_FILE returned

vars == <<now, tokenFileExists, tokenFile, secretFileExists, redirectOverride,
          pc, error, credentials, retSource, tokenData, listener,
          urlPresented, redirectPort, promise, settledBy, deadline, callbacks,
          noCodeSeen, inflight, refreshAttempts, refreshFailed, refreshStatus,
          oauthStarts, writes, netRequests, sent, isUrl, videoId,
          resultKeys, tool, ppc,
          maxAttempts, taskIdAt, attempt, timer, sleeps, requests, lastPoll,
          result, fileBytes, writerPc, pendingDoc, readerSaw>>

storeVars == <<tokenFileExists, tokenFile>>
envVars == <<secretFileExists, redirectOverride>>
ioVars == <<fileBytes, writerPc, pendingDoc, readerSaw>>
pollVars == <<tool, ppc, maxAttempts, taskIdAt, attempt, timer, sleeps,
              requests, lastPoll, result>>
flowVars == <<listener, urlPresented, redirectPort, promise, settledBy,
              deadline, callbacks, noCodeSeen, inflight>>
countVars == <<refreshAttempts, refreshFailed, oauthStarts, writes,
               netRequests>>

\* how a request to the token endpoint ended, as refreshToken sees it
StatusOf(resp) ==
    IF resp.kind = "throw" THEN "throw"
    ELSE IF ~resp.ok THEN "http_error"
    ELSE IF resp.kind = "bad_json" THEN "bad_json"
    ELSE "ok"
uploadVars == <<sent, isUrl, videoId, resultKeys>>

----------------------------------------------------------------------------
(* getCredentials, lines 27-47 *)

\* line 31 without the test of tokenData.expiry: a credential with no expiry
\* counts as usable
CacheHit_WithoutExpiry(td, t) ==
    TruthyStr(td.access_token) /\ (~TruthyNum(td.expiry) \/ t < td.expiry.v)

\* line 31: the stored credential is usable as it is
CacheHit(td, t) ==
    TruthyStr(td.access_token) /\ TruthyNum(td.expiry) /\ t < td.expiry.v

\* line 64 and the awaits of lines 53 and 66: refreshToken throws
RefreshThrows(resp) == resp.kind # "json" \/ ~resp.ok

\* lines 67-71: the credential refreshToken returns at time t
Refreshed(refreshToken, data, t) ==
    Credential(data.access_token, refreshToken,
               PlusNow(t, Times1000(data.expires_in)))

\* lines 145-147: saveToken
SaveToken(c) ==
    /\ tokenFileExists' = TRUE
    /\ tokenFile' = JSONstringify(c)
    /\ writes' = writes + 1

\* lines 74-90 with a client secret that is always at hand
DoOAuthFlowEnter_SecretAtHand ==
    /\ oauthStarts' = oauthStarts + 1
    /\ redirectPort' = RedirectPort(redirectOverride)
    /\ urlPresented' = TRUE
    /\ pc' = "oauth_presented"
    /\ error' = error

\* lines 74-90: doOAuthFlow up to the creation of the promise; reading the
\* client secret file throws when it is missing
DoOAuthFlowEnter ==
    /\ oauthStarts' = oauthStarts + 1
    /\ IF secretFileExists
          THEN /\ redirectPort' = RedirectPort(redirectOverride)
               /\ urlPresented' = TRUE
               /\ pc' = "oauth_presented"
               /\ error' = error
          ELSE /\ urlPresented' = urlPresented
               /\ redirectPort' = redirectPort
               /\ pc' = "failed"
               /\ error' = "ConfigError"

\* lines 40-46 with a catch block that hands back the credential it read
OnRefreshError_ReturnsStored ==
    /\ refreshFailed' = TRUE
    /\ credentials' = tokenFile
    /\ retSource' = "cache"
    /\ pc' = "have_cred"
    /\ UNCHANGED <<error, urlPresented, redirectPort, oauthStarts>>

\* lines 40-46: the catch block, then the interactive flow
OnRefreshError ==
    /\ refreshFailed' = TRUE
    /\ DoOAuthFlowEnter
    /\ UNCHANGED <<credentials, retSource>>

\* lines 37-39 without line 38: the refreshed credential is returned unsaved
OnRefreshed_WithoutSave(refreshed) ==
    /\ credentials' = refreshed
    /\ retSource' = "refresh"
    /\ pc' = "have_cred"
    /\ UNCHANGED <<storeVars, writes, error, urlPresented, redirectPort,
                   oauthStarts, refreshFailed>>

\* lines 37-39: persist the refreshed credential, then return it
OnRefreshed(refreshed) ==
    /\ SaveToken(refreshed)
    /\ credentials' = refreshed
    /\ retSource' = "refresh"
    /\ pc' = "have_cred"
    /\ UNCHANGED <<error, urlPresented, redirectPort, oauthStarts,
                   refreshFailed>>

\* lines 27-47 up to the first await, entered from line 169
GetCredentials ==
    LET td == IF tokenFileExists THEN tokenFile ELSE NoDocument IN
    /\ tokenData' = td
    /\ IF tokenFileExists /\ CacheHit(td, now)
          THEN /\ credentials' = td
               /\ retSource' = "cache"
               /\ pc' = "have_cred"
               /\ UNCHANGED <<error, urlPresented, redirectPort, countVars>>
          ELSE IF tokenFileExists /\ TruthyStr(td.refresh_token)
          THEN /\ refreshAttempts' = refreshAttempts + 1
               /\ IF secretFileExists
                     THEN /\ netRequests' = netRequests + 1
                          /\ pc' = "refreshing"
                          /\ UNCHANGED <<error, urlPresented, redirectPort,
                                         credentials, retSource,
                                         refreshFailed, oauthStarts>>
                     ELSE /\ OnRefreshError
                          /\ UNCHANGED netRequests
               /\ UNCHANGED writes
          ELSE /\ DoOAuthFlowEnter
               /\ UNCHANGED <<credentials, retSource, refreshAttempts,
                              refreshFailed, writes, netRequests>>

\* lines 149-169: execute validates its input and asks for the credential
Execute ==
    /\ pc = "idle"
    /\ \E videoExists \in BOOLEAN, url \in BOOLEAN, thumbExists \in BOOLEAN :
         /\ isUrl' = url
         /\ IF ~videoExists \/ (~url /\ ~thumbExists)
               THEN /\ pc' = "failed"
                    /\ error' = IF ~videoExists THEN "VideoNotFound"
                                                ELSE "ThumbnailNotFound"
                    /\ UNCHANGED <<credentials, retSource, tokenData,
                                   urlPresented, redirectPort, countVars>>
               ELSE GetCredentials
    /\ UNCHANGED <<refreshStatus, now, storeVars, envVars, ioVars, pollVars, listener,
                   promise, settledBy, deadline, callbacks, noCodeSeen,
                   inflight, sent, videoId, resultKeys>>

\* the token endpoint answers the refresh request (lines 53-71, 37-46)
RefreshResponse ==
    /\ pc = "refreshing"
    /\ \E resp \in TokenResponses :
         /\ refreshStatus' = StatusOf(resp)
         /\ IF RefreshThrows(resp)
               THEN /\ OnRefreshError
                    /\ UNCHANGED <<storeVars, writes>>
               ELSE OnRefreshed(Refreshed(tokenData.refresh_token, resp, now))
    /\ UNCHANGED <<now, envVars, ioVars, pollVars, tokenData, listener,
                   promise, settledBy, deadline, callbacks, noCodeSeen,
                   inflight, refreshAttempts, netRequests, uploadVars>>

----------------------------------------------------------------------------
(* doOAuthFlow, lines 74-143 *)

\* lines 92-141: the promise executor creates the server, starts listening
\* and arms the 300 second timer
DoOAuthFlowListen ==
    /\ pc = "oauth_presented"
    /\ listener' = "listening"
    /\ promise' = "pending"
    /\ deadline' = now + TimeoutMs
    /\ pc' = "oauth_wait"
    /\ UNCHANGED <<refreshStatus, now, storeVars, envVars, ioVars, pollVars, error,
                   credentials, retSource, tokenData, urlPresented,
                   redirectPort, settledBy, callbacks, noCodeSeen, inflight,
                   countVars, uploadVars>>

\* reject(err) with an execute that swallowed the rejection of line 169 and
\* went on to the upload
Reject_Swallowed(err, by) ==
    /\ IF promise = "pending"
          THEN /\ promise' = "rejected"
               /\ settledBy' = by
               /\ pc' = "have_cred"
               /\ error' = error
          ELSE UNCHANGED <<promise, settledBy, pc, error>>
    /\ UNCHANGED <<credentials, retSource>>

\* reject(err): settles the promise if it is still pending; getCredentials
\* and execute then throw err (the continuations run as microtasks, before
\* any other callback)
Reject(err, by) ==
    /\ IF promise = "pending"
          THEN /\ promise' = "rejected"
               /\ settledBy' = by
               /\ pc' = "failed"
               /\ error' = err
          ELSE UNCHANGED <<promise, settledBy, pc, error>>
    /\ UNCHANGED <<credentials, retSource>>

\* resolve(c): settles the promise if it is still pending; getCredentials
\* returns c to execute (line 46, then line 169)
Resolve(c) ==
    /\ IF promise = "pending"
          THEN /\ promise' = "resolved"
               /\ settledBy' = "success"
               /\ pc' = "have_cred"
               /\ credentials' = c
               /\ retSource' = "oauth"
          ELSE UNCHANGED <<promise, settledBy, pc, credentials, retSource>>
    /\ UNCHANGED error

\* lines 98-103 without reject(): the request without a code is answered and
\* the server closed, and the flow is left pending
NoCodeCallback_WithoutReject ==
    /\ listener' = "closed"
    /\ noCodeSeen' = TRUE
    /\ UNCHANGED <<promise, settledBy, pc, error, credentials, retSource>>
    /\ UNCHANGED <<inflight, netRequests>>

\* lines 98-103: the request carries no code: the server is closed and the
\* flow rejected; nothing is fetched and nothing saved
NoCodeCallback ==
    /\ listener' = "closed"
    /\ noCodeSeen' = TRUE
    /\ Reject("NoAuthorizationCode", "no_code")
    /\ UNCHANGED <<inflight, netRequests>>

\* lines 93-116: the listener receives a request; one to another path is
\* ignored, one without a code fails the flow, one with a code starts the
\* token exchange
Callback ==
    /\ listener = "listening"
    /\ callbacks < MaxCallbacks
    /\ callbacks' = callbacks + 1
    /\ \E pathOk \in BOOLEAN, hasCode \in BOOLEAN :
         IF ~pathOk
           THEN UNCHANGED <<listener, noCodeSeen, promise, settledBy, pc,
                            error, credentials, retSource, inflight,
                            netRequests>>
           ELSE IF ~hasCode
           THEN NoCodeCallback
           ELSE /\ inflight' = inflight + 1
                /\ netRequests' = netRequests + 1
                /\ UNCHANGED <<listener, noCodeSeen, promise, settledBy, pc,
                               error, credentials, retSource>>
    /\ UNCHANGED <<refreshStatus, now, storeVars, envVars, ioVars, pollVars, tokenData,
                   urlPresented, redirectPort, deadline, refreshAttempts,
                   refreshFailed, oauthStarts, writes, uploadVars>>

\* lines 106-119: the exchange throws (fetch rejects, the body is not JSON,
\* or the body carries an error field); the HTTP status is not looked at
ExchangeThrows(resp) == resp.kind # "json" \/ TruthyStr(resp.error)

\* lines 121-125: the credential built from the exchange response at time t
Exchanged(tokens, t) ==
    Credential(tokens.access_token, tokens.refresh_token,
               PlusNow(t, Times1000(tokens.expires_in)))

\* lines 105-136: what the handler makes of the answer resp at time t: the
\* catch block, or the credential it saves and resolves with (answers the
\* handler does not tell apart give one outcome)
ExchangeOutcome(resp, t) ==
    IF ExchangeThrows(resp)
      THEN [throws |-> TRUE, credentials |-> NoDocument]
      ELSE [throws |-> FALSE, credentials |-> Exchanged(resp, t)]

\* execute is in the middle of a synchronous stretch of code: no other
\* callback runs before it reaches its next await
Running == pc \in {"oauth_presented", "have_cred"}

\* lines 118-136: the token endpoint answers the exchange of one handler
ExchangeResponse ==
    /\ inflight > 0
    /\ ~Running
    /\ inflight' = inflight - 1
    /\ listener' = "closed"
    /\ \E o \in { ExchangeOutcome(resp, now) : resp \in TokenResponses } :
         IF o.throws
           THEN /\ Reject("ExchangeError", "exchange_error")
                /\ UNCHANGED <<storeVars, writes>>
           ELSE /\ SaveToken(o.credentials)
                /\ Resolve(o.credentials)
    /\ UNCHANGED <<refreshStatus, now, envVars, ioVars, pollVars, tokenData,
                   urlPresented, redirectPort, deadline, callbacks,
                   noCodeSeen, refreshAttempts, refreshFailed, oauthStarts,
                   netRequests, uploadVars>>

\* line 141 without server.close(): the deadline only rejects
Timeout_WithoutClose ==
    /\ promise = "pending"
    /\ now >= deadline
    /\ listener' = listener
    /\ Reject("Timeout", "timeout")
    /\ UNCHANGED <<refreshStatus, now, storeVars, envVars, ioVars, pollVars,
                   tokenData, urlPresented, redirectPort, deadline, callbacks,
                   noCodeSeen, inflight, countVars, uploadVars>>

\* line 141 without reject(): the deadline only closes the server
Timeout_WithoutReject ==
    /\ promise = "pending"
    /\ now >= deadline
    /\ listener' = "closed"
    /\ UNCHANGED <<promise, settledBy, pc, error, credentials, retSource>>
    /\ UNCHANGED <<refreshStatus, now, storeVars, envVars, ioVars, pollVars,
                   tokenData, urlPresented, redirectPort, deadline, callbacks,
                   noCodeSeen, inflight, countVars, uploadVars>>

\* line 141: the setTimeout callback while the promise is pending (the timer
\* is never cleared; once the promise has settled, on a path that closed the
\* server, its callback changes nothing)
Timeout ==
    /\ promise = "pending"
    /\ now >= deadline
    /\ listener' = "closed"
    /\ Reject("Timeout", "timeout")
    /\ UNCHANGED <<refreshStatus, now, storeVars, envVars, ioVars, pollVars,
                   tokenData, urlPresented, redirectPort, deadline, callbacks,
                   noCodeSeen, inflight, countVars, uploadVars>>

\* the token documents a previous run of the tool has left on disk: what
\* saveToken wrote for the credential of a token exchange (line 127)
InitialDocuments ==
    { JSONstringify(Exchanged(resp, t)) :
        resp \in { r \in TokenResponses : ~ExchangeThrows(r) },
        t \in PreviousTimes }

----------------------------------------------------------------------------
(* execute after the credential, lines 170-274 *)

\* the expiry of c is present and already in the past at time t
Stale(c, t) == IsNum(c.expiry) /\ c.expiry.v < t

\* an authenticated request with the Authorization header of lines 201, 244
Request(req, c, t) ==
    [req |-> req, token |-> c.access_token, stale |-> Stale(c, t)]

\* lines 170-206: the primary upload request
SendVideo ==
    /\ pc = "have_cred"
    /\ sent' = sent \cup {Request("video", credentials, now)}
    /\ pc' = "video_sent"
    /\ UNCHANGED <<refreshStatus, now, storeVars, envVars, ioVars, pollVars, error,
                   credentials, retSource, tokenData, flowVars, countVars,
                   isUrl, videoId, resultKeys>>

\* lines 239-250: the thumbnail request
SendThumbnail ==
    /\ sent' = sent \cup {Request("thumbnail", credentials, now)}
    /\ pc' = "thumbnail_sent"
    /\ error' = error

\* lines 208-237: the answer to the primary upload; a URL thumbnail is
\* downloaded next, a local one is read and sent
VideoResponse ==
    /\ pc = "video_sent"
    /\ \E ok \in BOOLEAN, id \in {Undefined, "v1"} :
         IF ~ok
           THEN /\ pc' = "failed"
                /\ error' = "UploadFailed"
                /\ UNCHANGED <<sent, videoId>>
           ELSE /\ videoId' = id
                /\ IF isUrl
                      THEN /\ pc' = "thumbnail_download"
                           /\ UNCHANGED <<sent, error>>
                      ELSE SendThumbnail
    /\ UNCHANGED <<refreshStatus, now, storeVars, envVars, ioVars, pollVars,
                   credentials, retSource, tokenData, flowVars, countVars,
                   isUrl, resultKeys>>

\* lines 224-232: the answer to the thumbnail download
ThumbnailDownloaded ==
    /\ pc = "thumbnail_download"
    /\ \E ok \in BOOLEAN :
         IF ~ok
           THEN /\ pc' = "failed"
                /\ error' = "ThumbnailDownloadFailed"
                /\ UNCHANGED sent
           ELSE SendThumbnail
    /\ UNCHANGED <<refreshStatus, now, storeVars, envVars, ioVars, pollVars,
                   credentials, retSource, tokenData, flowVars, countVars,
                   isUrl, videoId, resultKeys>>

\* lines 268-272: the keys of the object execute returns
ReturnedKeys == {"videoId", "url", "privacyStatus"}

\* lines 239-273: the fetch of the thumbnail request rejects and execute
\* throws; or it is answered, a non-ok status is only logged, and execute
\* returns
ThumbnailAnswered(answer) ==
    IF answer = "throw"
      THEN /\ pc' = "failed"
           /\ error' = "ThumbnailRequestFailed"
           /\ UNCHANGED resultKeys
      ELSE /\ pc' = "done"
           /\ resultKeys' = ReturnedKeys
           /\ error' = error

\* lines 239-273: the thumbnail request ends; execute returns or throws
ThumbnailResponse ==
    /\ pc = "thumbnail_sent"
    /\ \E answer \in {"throw", "rejected", "attached"} :
         ThumbnailAnswered(answer)
    /\ UNCHANGED <<refreshStatus, now, storeVars, envVars, ioVars, pollVars,
                   credentials, retSource, tokenData, flowVars, countVars,
                   sent, isUrl, videoId>>

----------------------------------------------------------------------------
(* The generation tools: submit a task, then poll its status *)

\* image: ImageGeneratorTool (image-generator.tool.ts);
\* thumbnail: ThumbnailGeneratorTool
Tools == {"image", "thumbnail"}

\* the attempt budget of the loop: pollForImage takes maxAttempts as a
\* parameter whose default is 20; the thumbnail tool's loop has the literal
Budgets(t) ==
    IF t = "image" THEN 0..MaxBudget \cup {DefaultMaxAttempts}
    ELSE {ThumbnailMaxAttempts}

\* the delay of the sleep at the head of the loop
IntervalOf(t) == IF t = "image" THEN PollInterval ELSE ThumbnailPollInterval

\* the variables of the upload tool, which a generation tool leaves alone
uploadSide == <<now, storeVars, envVars, ioVars, pc, error, credentials, retSource,
                tokenData, flowVars, countVars, refreshStatus, uploadVars>>

\* a string that is neither undefined (or null) nor empty
NonEmpty(u) == u \notin {Undefined, ""}

\* answers to the submit request: fetch rejects, a non-ok status, a body that
\* is not JSON, or a JSON body with the task id at data.task_id (nested), at
\* task_id (top) or nowhere
SubmitResponses ==
    [kind : {"throw", "http_error", "bad_json"}, id : {"none"}]
    \cup [kind : {"json"}, id : {"none", "top", "nested"}]

\* lines 53-58 of the image tool, lines 64-70 of the thumbnail tool: the
\* submit answer yields a task id; the thumbnail tool reads data.task_id only
TaskCreated(t, resp) ==
    /\ resp.kind = "json"
    /\ \/ resp.id = "nested"
       \/ t = "image" /\ resp.id = "top"

\* answers to a status request: fetch rejects; a non-ok status; a body that is
\* not JSON, whose text may hold the words 'Task failed' (the SyntaxError of
\* json() quotes the start of the body); the JSON body null; a JSON body with
\* a status and, when completed, the generated array (absent, empty, with an
\* empty or null first element, with a URL first) and the other places of an
\* image URL (images[0].url, image)
StatusResponses ==
    [kind : {"throw", "http_error", "json_null"}, mentions : {FALSE},
     status : {Undefined}, generated : {"absent"}, other : {"absent"}]
    \cup
    [kind : {"bad_json"}, mentions : BOOLEAN,
     status : {Undefined}, generated : {"absent"}, other : {"absent"}]
    \cup
    [kind : {"json"}, mentions : {FALSE},
     status : {Undefined, "IN_PROGRESS", "FAILED", "ERROR"},
     generated : {"absent"}, other : {"absent"}]
    \cup
    [kind : {"json"}, mentions : {FALSE},
     status : {"COMPLETED", "SUCCESS"},
     generated : {"absent", "empty", "first_empty", "first_url"},
     other : {"absent", "url"}]

\* data?.data?.status || data?.status || 'unknown'
CurrentStatus(resp) ==
    IF resp.kind = "json" /\ resp.status # Undefined THEN resp.status
    ELSE "unknown"

\* image tool, lines 110-116: the first element of a non-empty generated
\* array, else the first of the other places that holds something
ImageUrlOf(resp) ==
    IF resp.generated = "first_url" THEN "url"
    ELSE IF resp.generated = "first_empty" THEN ""
    ELSE IF resp.other = "url" THEN "url"
    ELSE Undefined

\* thumbnail tool, lines 102-105: the first element of a non-empty generated
\* array
ThumbnailUrlOf(resp) ==
    IF resp.generated = "first_url" THEN "url"
    ELSE IF resp.generated = "first_empty" THEN ""
    ELSE Undefined

\* what one pass of the loop body decides: go on with the next attempt,
\* return an image URL, or throw out of the loop
Continue ==
    [then |-> "continue", error |-> "none", detail |-> "none",
     imageUrl |-> Undefined]
Return(u) ==
    [then |-> "return", error |-> "none", detail |-> "none", imageUrl |-> u]
Throw(e, d) ==
    [then |-> "throw", error |-> e, detail |-> d, imageUrl |-> Undefined]

\* image tool, lines 127-134: the catch inside the loop rethrows an error
\* whose message holds 'Task failed' or 'no image found' and swallows others
ImageCatch(err, fatalText) == IF fatalText THEN err ELSE Continue

\* image tool, lines 91-134: the loop body after the status request
PollForImageStep(resp) ==
    IF resp.kind = "throw"
      THEN ImageCatch(Throw("PollError", "none"), FALSE)
    ELSE IF resp.kind = "http_error" THEN Continue
    ELSE IF resp.kind = "bad_json"
      THEN ImageCatch(Throw("PollError", "none"), resp.mentions)
    ELSE IF CurrentStatus(resp) \in {"COMPLETED", "SUCCESS"}
      THEN IF NonEmpty(ImageUrlOf(resp))
             THEN Return(ImageUrlOf(resp))
             ELSE ImageCatch(Throw("NoImage", "response"), TRUE)
    ELSE IF CurrentStatus(resp) \in {"FAILED", "ERROR"}
      THEN ImageCatch(Throw("TaskFailed", "response"), TRUE)
    ELSE Continue

\* thumbnail tool, lines 84-119, with a loop that goes on after a status
\* ERROR
ThumbnailPollStep_ErrorContinues(resp) ==
    IF resp.kind \in {"throw", "bad_json", "json_null"}
      THEN Throw("PollError", "none")
    ELSE IF resp.kind = "http_error" THEN Continue
    ELSE IF CurrentStatus(resp) \in {"COMPLETED", "SUCCESS"}
      THEN IF ThumbnailUrlOf(resp) # Undefined
             THEN Return(ThumbnailUrlOf(resp))
             ELSE Throw("NoImage", "response")
    ELSE IF CurrentStatus(resp) = "FAILED"
      THEN Throw("TaskFailed", "response")
    ELSE Continue

\* thumbnail tool, lines 84-119: the loop body after the status request; no
\* try surrounds it inside the loop, so a rejected fetch, a body json()
\* cannot parse and the body null (statusResult.data of null) throw out of
\* the loop; a non-empty generated array is returned without a look at its
\* first element
ThumbnailPollStep(resp) ==
    IF resp.kind \in {"throw", "bad_json", "json_null"}
      THEN Throw("PollError", "none")
    ELSE IF resp.kind = "http_error" THEN Continue
    ELSE IF CurrentStatus(resp) \in {"COMPLETED", "SUCCESS"}
      THEN IF ThumbnailUrlOf(resp) # Undefined
             THEN Return(ThumbnailUrlOf(resp))
             ELSE Throw("NoImage", "response")
    ELSE IF CurrentStatus(resp) \in {"FAILED", "ERROR"}
      THEN Throw("TaskFailed", "response")
    ELSE Continue

PollStep(t, resp) ==
    IF t = "image" THEN PollForImageStep(resp) ELSE ThumbnailPollStep(resp)

\* what execute returns
NoResult ==
    [success |-> FALSE, imageUrl |-> Undefined, error |-> "none",
     detail |-> "none"]
\* a success result that drops the image URL it was given
Succeeded_WithoutUrl(u) ==
    [success |-> TRUE, imageUrl |-> "", error |-> "none", detail |-> "none"]
\* image tool lines 67-71, thumbnail tool lines 109-113
Succeeded(u) ==
    [success |-> TRUE, imageUrl |-> u, error |-> "none", detail |-> "none"]
\* the catch of execute: image tool lines 72-79, thumbnail tool lines 124-131
Failed(e, d) ==
    [success |-> FALSE, imageUrl |-> "", error |-> e, detail |-> d]

\* a non-empty image URL can be read from the places tool t probes
Extractable(t, resp) ==
    IF t = "image" THEN NonEmpty(ImageUrlOf(resp))
    ELSE NonEmpty(ThumbnailUrlOf(resp))

\* what a status response reports
Reported(t, resp) ==
    IF resp.kind # "json" THEN "unreachable"
    ELSE IF resp.status \in {"COMPLETED", "SUCCESS"}
      THEN IF Extractable(t, resp) THEN "completed"
           ELSE "completed_without_result"
    ELSE IF resp.status \in {"FAILED", "ERROR"} THEN "failed"
    ELSE "pending"

\* the head of the loop with the status request before the sleep
LoopHead_FetchFirst(i) ==
    /\ attempt' = i
    /\ IF i < maxAttempts
          THEN /\ requests' = requests + 1
               /\ ppc' = "requested"
               /\ UNCHANGED <<timer, sleeps, result>>
          ELSE /\ ppc' = "returned"
               /\ result' = Failed("Timeout", "none")
               /\ UNCHANGED <<timer, sleeps, requests>>

\* image tool lines 86-87 and 137, thumbnail tool lines 78-79 and 122: the
\* loop test with attempt = i; then the sleep is started, or the loop is over
\* and the timeout error thrown (and caught by execute)
LoopHead(i) ==
    /\ attempt' = i
    /\ IF i < maxAttempts
          THEN /\ timer' = IntervalOf(tool)
               /\ sleeps' = sleeps + 1
               /\ ppc' = "sleeping"
               /\ UNCHANGED <<requests, result>>
          ELSE /\ ppc' = "returned"
               /\ result' = Failed("Timeout", "none")
               /\ UNCHANGED <<timer, sleeps, requests>>

\* what execute threw: no result is returned
Thrown(e) == [NoResult EXCEPT !.error = e]

\* image tool lines 21-46, thumbnail tool lines 19-57: execute throws when
\* the API key is not set; the thumbnail tool then throws when the base
\* image does not exist (lines 28-31, outside its try); otherwise the
\* submit request is sent
GenerateExecute ==
    /\ tool \in Tools
    /\ ppc = "idle"
    /\ \E apiKey \in BOOLEAN, baseImageExists \in BOOLEAN :
         IF ~apiKey
           THEN /\ ppc' = "thrown"
                /\ result' = Thrown("ApiKeyNotSet")
           ELSE IF tool = "thumbnail" /\ ~baseImageExists
           THEN /\ ppc' = "thrown"
                /\ result' = Thrown("BaseImageNotFound")
           ELSE /\ ppc' = "submitted"
                /\ result' = result
    /\ UNCHANGED <<tool, maxAttempts, taskIdAt, attempt, timer, sleeps,
                   requests, lastPoll, uploadSide>>

\* image tool lines 48-63, thumbnail tool lines 59-79: the answer to the
\* submit request; with a task id the loop is entered
SubmitResponse ==
    /\ ppc = "submitted"
    /\ \E resp \in SubmitResponses :
         /\ taskIdAt' = resp.id
         /\ IF TaskCreated(tool, resp)
           THEN LoopHead(0)
           ELSE /\ ppc' = "returned"
                /\ result' = Failed(IF resp.kind = "json" THEN "NoTaskId"
                                                         ELSE "SubmitFailed",
                                    "none")
                /\ UNCHANGED <<attempt, timer, sleeps, requests>>
    /\ UNCHANGED <<tool, maxAttempts, lastPoll, uploadSide>>

\* image tool lines 87-97, thumbnail tool lines 79-89: the sleep is over and
\* the status request is sent
Wake ==
    /\ ppc = "sleeping"
    /\ timer = IntervalOf(tool)
    /\ timer' = 0
    /\ requests' = requests + 1
    /\ ppc' = "requested"
    /\ UNCHANGED <<tool, maxAttempts, taskIdAt, attempt, sleeps, lastPoll,
                   result, uploadSide>>

\* image tool lines 99-134, thumbnail tool lines 91-119: the answer to the
\* status request
StatusResponse ==
    /\ ppc = "requested"
    /\ \E resp \in StatusResponses :
         LET o == PollStep(tool, resp) IN
         /\ lastPoll' = Reported(tool, resp)
         /\ IF o.then = "continue"
               THEN LoopHead(attempt + 1)
               ELSE /\ ppc' = "returned"
                    /\ result' = IF o.then = "return"
                                   THEN Succeeded(o.imageUrl)
                                   ELSE Failed(o.error, o.detail)
                    /\ UNCHANGED <<attempt, timer, sleeps, requests>>
    /\ UNCHANGED <<tool, maxAttempts, taskIdAt, uploadSide>>

\* no generation tool runs
PollIdle ==
    /\ tool = "none"
    /\ ppc = "idle"
    /\ maxAttempts = 0
    /\ taskIdAt = "none"
    /\ attempt = 0
    /\ timer = 0
    /\ sleeps = 0
    /\ requests = 0
    /\ lastPoll = "none"
    /\ result = NoResult

----------------------------------------------------------------------------
(* Environment *)

\* Date.now() advances while execute awaits a response or the callback; while
\* the timer of doOAuthFlow is armed the clock also reaches its deadline
Tick ==
    /\ pc \in {"refreshing", "oauth_wait", "video_sent", "thumbnail_download"}
    /\ \E t \in Times \cup (IF promise = "pending" THEN {deadline} ELSE {}) :
         /\ t > now
         /\ now' = t
    /\ UNCHANGED <<refreshStatus, storeVars, envVars, ioVars, pollVars, pc, error,
                   credentials, retSource, tokenData, flowVars, countVars,
                   uploadVars>>

\* the upload tool before execute is called
UploadIdle ==
    /\ now = StartTime
    /\ pc = "idle"
    /\ error = "none"
    /\ credentials = NoDocument
    /\ retSource = "none"
    /\ tokenData = NoDocument
    /\ listener = "none"
    /\ urlPresented = FALSE
    /\ redirectPort = 0
    /\ promise = "none"
    /\ settledBy = "none"
    /\ deadline = -1
    /\ callbacks = 0
    /\ noCodeSeen = FALSE
    /\ inflight = 0
    /\ refreshAttempts = 0
    /\ refreshFailed = FALSE
    /\ refreshStatus = "none"
    /\ oauthStarts = 0
    /\ writes = 0
    /\ netRequests = 0
    /\ sent = {}
    /\ isUrl = FALSE
    /\ videoId = Undefined
    /\ resultKeys = {}

----------------------------------------------------------------------------
(* TOKEN_FILE on disk, shared by every process that runs the tool *)

\* no writeFileSync and no readFileSync of TOKEN_FILE is under way
StoreIdle ==
    /\ fileBytes = "whole"
    /\ writerPc = "idle"
    /\ pendingDoc = NoDocument
    /\ readerSaw = "nothing"

\* everything but the file and the two file operations
atRest == <<now, envVars, pc, error, credentials, retSource, tokenData,
            flowVars, countVars, refreshStatus, uploadVars, pollVars>>

\* line 146: writeFileSync opens TOKEN_FILE in place with the default flag
\* 'w', which creates the file or truncates it to zero length
WriteFileOpen ==
    /\ writerPc = "called"
    /\ writerPc' = "opened"
    /\ tokenFileExists' = TRUE
    /\ fileBytes' = "empty"
    /\ UNCHANGED <<tokenFile, pendingDoc, readerSaw, atRest>>

\* line 146: writeFileSync writes the document into the open file and
\* returns
WriteFileWrite ==
    /\ writerPc = "opened"
    /\ writerPc' = "returned"
    /\ tokenFile' = pendingDoc
    /\ fileBytes' = "whole"
    /\ UNCHANGED <<tokenFileExists, pendingDoc, readerSaw, atRest>>

\* lines 28-29: getCredentials of another process reads the file:
\* existsSync, then JSON.parse of readFileSync, which throws on the bytes
\* of a file that does not hold a whole document
ReadTokenFile ==
    /\ readerSaw = "nothing"
    /\ readerSaw' = IF ~tokenFileExists THEN "absent"
                    ELSE IF fileBytes = "whole" THEN "document"
                    ELSE "torn"
    /\ UNCHANGED <<storeVars, fileBytes, writerPc, pendingDoc, atRest>>

\* saveToken has been called with a credential while another process may
\* read the file
StoreInit ==
    /\ tokenFileExists \in BOOLEAN
    /\ tokenFile \in IF tokenFileExists THEN InitialDocuments ELSE {NoDocument}
    /\ fileBytes = "whole"
    /\ writerPc = "called"
    /\ pendingDoc \in InitialDocuments
    /\ readerSaw = "nothing"
    /\ secretFileExists = TRUE
    /\ redirectOverride = NoOverride
    /\ UploadIdle
    /\ PollIdle

StoreNext ==
    \/ WriteFileOpen
    \/ WriteFileWrite
    \/ ReadTokenFile

StoreSpec == StoreInit /\ [][StoreNext]_vars

\* execute of the upload tool is about to be called
Init ==
    /\ tokenFileExists \in BOOLEAN
    /\ tokenFile \in IF tokenFileExists THEN InitialDocuments ELSE {NoDocument}
    /\ secretFileExists \in BOOLEAN
    \* the redirect override is varied in the runs that start without a
    \* token file
    /\ redirectOverride \in IF tokenFileExists THEN {NoOverride}
                                               ELSE RedirectOverrides
    /\ UploadIdle
    /\ PollIdle
    /\ StoreIdle

\* execute of a generation tool is about to be called
PollInit ==
    /\ tool \in Tools
    /\ maxAttempts \in Budgets(tool)
    /\ taskIdAt = "none"
    /\ ppc = "idle"
    /\ attempt = 0
    /\ timer = 0
    /\ sleeps = 0
    /\ requests = 0
    /\ lastPoll = "none"
    /\ result = NoResult
    /\ tokenFileExists = FALSE
    /\ tokenFile = NoDocument
    /\ secretFileExists = FALSE
    /\ redirectOverride = NoOverride
    /\ UploadIdle
    /\ StoreIdle

Next ==
    \/ Execute
    \/ RefreshResponse
    \/ DoOAuthFlowListen
    \/ Callback
    \/ ExchangeResponse
    \/ Timeout
    \/ SendVideo
    \/ VideoResponse
    \/ ThumbnailDownloaded
    \/ ThumbnailResponse
    \/ Tick

Spec == Init /\ [][Next]_vars

\* the call up to its first upload request: the steps after it leave the
\* interactive flow alone
FlowNext ==
    \/ Execute
    \/ RefreshResponse
    \/ DoOAuthFlowListen
    \/ Callback
    \/ ExchangeResponse
    \/ Timeout
    \/ SendVideo
    \/ Tick

\* the timer of line 141 is fair: time passes while execute waits, and the
\* setTimeout callback runs once it is due
FairSpec == Init /\ [][FlowNext]_vars /\ WF_vars(Tick) /\ WF_vars(Timeout)

PollNext ==
    \/ GenerateExecute
    \/ SubmitResponse
    \/ Wake
    \/ StatusResponse

PollSpec == PollInit /\ [][PollNext]_vars

TypeOK ==
    /\ fileBytes \in {"whole", "empty"}
    /\ writerPc \in {"idle", "called", "opened", "returned"}
    /\ readerSaw \in {"nothing", "absent", "document", "torn"}
    /\ now \in Times \cup { t + TimeoutMs : t \in Times }
    /\ tokenFileExists \in BOOLEAN
    /\ pc \in {"idle", "refreshing", "oauth_presented", "oauth_wait",
               "have_cred", "video_sent", "thumbnail_download",
               "thumbnail_sent", "done", "failed"}
    /\ listener \in {"none", "listening", "closed"}
    /\ promise \in {"none", "pending", "resolved", "rejected"}
    /\ callbacks \in 0..MaxCallbacks
    /\ inflight \in 0..MaxCallbacks
    /\ redirectOverride \in RedirectOverrides
    /\ resultKeys \in {{}, ReturnedKeys}
    /\ tool \in Tools \cup {"none"}
    /\ ppc \in {"idle", "submitted", "sleeping", "requested", "returned",
                "thrown"}
    /\ maxAttempts \in 0..DefaultMaxAttempts
    /\ taskIdAt \in {"none", "top", "nested"}
    /\ attempt \in 0..maxAttempts
    /\ timer \in {0, PollInterval, ThumbnailPollInterval}
    /\ sleeps \in 0..maxAttempts
    /\ requests \in 0..maxAttempts
    /\ lastPoll \in {"none", "unreachable", "pending", "completed",
                     "completed_without_result", "failed"}
    /\ redirectPort \in {0} \cup { RedirectPort(o) : o \in RedirectOverrides }

----------------------------------------------------------------------------
(* Properties *)

\* getCredentials has returned a credential to execute
Returned == retSource # "none"

\* the stored credential getCredentials read had an expiry that was not in the
\* future when it was read (execute starts at StartTime)
StoredExpired == IsNum(tokenData.expiry) /\ tokenData.expiry.v <= StartTime

\* C1: getCredentials never returns the stored expired credential; after a
\* failed refresh the call enters doOAuthFlow exactly once, and what it
\* returns, if anything, is the credential that flow resolved with.
C1_NeverReturnsStale ==
    /\ oauthStarts <= 1
    /\ refreshFailed => oauthStarts = 1
    /\ (refreshFailed /\ Returned) =>
          /\ retSource = "oauth"
          /\ promise = "resolved"
    /\ (StoredExpired /\ Returned) =>
          /\ retSource \in {"refresh", "oauth"}
          /\ credentials # tokenData

\* C1 witness: the refresh of an expired credential failed and the
\* interactive flow produced the credential that was returned
C1_Witness ==
    /\ StoredExpired
    /\ refreshFailed
    /\ refreshStatus = "http_error"
    /\ retSource = "oauth"

\* C2 (as claimed): no authenticated request of the upload carries a
\* credential whose expiry is already in the past when the request is sent,
\* unless a refresh was attempted in this call.
C2_NoStaleRequest ==
    \A r \in sent : r.stale => refreshAttempts > 0

\* the stored credential getCredentials read has an expiry in the future
StoredFuture == IsNum(tokenData.expiry) /\ tokenData.expiry.v > StartTime

\* C3 (as claimed): a stored credential whose expiry lies in the future is
\* returned with no request to the token endpoint and no listener started.
C3_FutureExpiryNoNetwork ==
    StoredFuture =>
        /\ retSource = "cache"
        /\ credentials = tokenData
        /\ netRequests = 0
        /\ listener = "none"

\* the stored credential getCredentials read has an access token and no
\* expiry (saveToken writes a missing expiry as null)
StoredWithoutExpiry ==
    TruthyStr(tokenData.access_token) /\ ~IsNum(tokenData.expiry)

\* C4 (as claimed): a stored credential with an access token and no expiry is
\* returned as a cache hit: no refresh, no interactive flow, no store write.
C4_NoExpiryIsCacheHit ==
    StoredWithoutExpiry =>
        /\ retSource = "cache"
        /\ credentials = tokenData
        /\ refreshAttempts = 0
        /\ oauthStarts = 0
        /\ writes = 0

\* C4 (amended): a stored credential with an access token and no expiry is
\* never a cache hit: getCredentials calls refreshToken once when a refresh
\* token is stored, and otherwise goes straight to the interactive flow.
C4_NoExpiryNeverCacheHit ==
    StoredWithoutExpiry =>
        /\ retSource # "cache"
        /\ IF TruthyStr(tokenData.refresh_token)
              THEN refreshAttempts = 1
              ELSE refreshAttempts = 0 /\ oauthStarts = 1

\* C4 witness: such a credential went through a refresh that was returned
C4_Witness ==
    /\ StoredWithoutExpiry
    /\ tokenData.expiry = Null
    /\ retSource = "refresh"

\* C5 (as claimed): one getCredentials call writes the credential store at
\* most once, and not at all on a cache hit.
C5_AtMostOneWrite ==
    /\ writes <= 1
    /\ retSource = "cache" => writes = 0

\* C6 (as claimed): a successful refresh of an expired credential keeps the
\* stored refresh token and yields an expiry strictly greater than the
\* previous one.
C6_RefreshExtendsExpiry ==
    (StoredExpired /\ retSource = "refresh") =>
        /\ credentials.refresh_token = tokenData.refresh_token
        /\ IsNum(credentials.expiry)
        /\ credentials.expiry.v > tokenData.expiry.v

\* C7: at the moment getCredentials hands a refreshed or newly authorized
\* credential to execute, saveToken has already run and the token file holds
\* the document of exactly that credential.
C7_StoreHoldsReturned ==
    (pc = "have_cred" /\ retSource \in {"refresh", "oauth"}) =>
        /\ writes >= 1
        /\ tokenFileExists
        /\ tokenFile = JSONstringify(credentials)

\* C7 witness: a refreshed credential is being returned over a token file
\* that held another document before
C7_Witness ==
    /\ pc = "have_cred"
    /\ retSource = "refresh"
    /\ tokenFile # tokenData
    /\ tokenFile = JSONstringify(credentials)

\* C8 (as claimed): refreshToken fails on a non-success status and on a
\* success response without an access token; in neither case does the
\* refresh path return or persist a credential.
C8_RefreshRejectsBadResponses ==
    /\ refreshStatus = "http_error" => refreshFailed /\ retSource # "refresh"
    /\ retSource = "refresh" => TruthyStr(credentials.access_token)

\* C9: once the promise of doOAuthFlow has settled, on whichever exit path,
\* the callback listener has been closed.
C9_SettledFlowClosedListener ==
    promise \in {"resolved", "rejected"} =>
        /\ settledBy \in {"success", "no_code", "exchange_error", "timeout"}
        /\ listener = "closed"

\* C9 witness: the flow was settled by the deadline
C9_Witness ==
    /\ promise = "rejected"
    /\ settledBy = "timeout"
    /\ listener = "closed"

\* C10 (as claimed): the authorization URL is never presented while the
\* listener has not been started.
C10_ListeningBeforeUrl ==
    urlPresented => listener \in {"listening", "closed"}

\* C11 (as claimed): while the callback listener is bound, the port it is
\* bound to (server.listen) is the port of the redirect_uri that was put in
\* the authorization URL and is sent in the token exchange.
C11_ListenerBindsRedirectPort ==
    listener = "listening" => redirectPort = ListenPort

\* the promise of doOAuthFlow has reached a terminal outcome
Settled == promise \in {"resolved", "rejected"}

\* C12: a flow that received no callback request and has settled was settled
\* by the deadline, with the listener closed and the Timeout error thrown by
\* execute; a settled flow keeps its one outcome; and, with a fair timer,
\* every pending flow eventually settles (so one that never receives a
\* callback is eventually failed by the deadline).
C12_DeadlineSettlesFlow ==
    /\ [](Settled /\ callbacks = 0 =>
            /\ settledBy = "timeout"
            /\ promise = "rejected"
            /\ listener = "closed"
            /\ pc = "failed"
            /\ error = "Timeout")
    /\ [][Settled => promise' = promise /\ settledBy' = settledBy]_vars
    /\ (promise = "pending") ~> Settled

\* C12 witness: the deadline passed without any callback request and the
\* flow failed with the Timeout error
C12_Witness ==
    /\ callbacks = 0
    /\ settledBy = "timeout"
    /\ error = "Timeout"
    /\ now >= deadline

\* C13: once a callback request to the expected path without a code has been
\* received, the flow is rejected with the no-authorization-code error, which
\* execute throws, and the listener is closed; the step that receives it
\* issues no token-exchange request and leaves the token file as it was.
C13_NoCodeFailsFlow ==
    /\ [](noCodeSeen =>
            /\ promise = "rejected"
            /\ settledBy = "no_code"
            /\ listener = "closed"
            /\ pc = "failed"
            /\ error = "NoAuthorizationCode")
    /\ [][(~noCodeSeen /\ noCodeSeen') =>
            /\ netRequests' = netRequests
            /\ inflight' = inflight
            /\ writes' = writes
            /\ UNCHANGED storeVars]_vars

\* C13 witness: the first callback request had no code; the flow failed
\* without any request to the token endpoint and without a write
C13_Witness ==
    /\ noCodeSeen
    /\ callbacks = 1
    /\ error = "NoAuthorizationCode"
    /\ inflight = 0
    /\ writes = 0

\* the token-exchange requests of line 106 issued in this flow: the requests
\* to the token endpoint other than the refresh request of line 53
ExchangeRequests ==
    netRequests - (IF refreshAttempts = 1 /\ secretFileExists THEN 1 ELSE 0)

\* C14 (as claimed): one flow issues at most one token-exchange request, and
\* at most one request handler is ever awaiting an exchange.
C14_AtMostOneExchange ==
    /\ ExchangeRequests <= 1
    /\ inflight <= 1

\* the error execute throws for each failing exit of doOAuthFlow
FlowError(by) ==
    CASE by = "timeout" -> "Timeout"
      [] by = "no_code" -> "NoAuthorizationCode"
      [] by = "exchange_error" -> "ExchangeError"
      [] OTHER -> "none"

\* C15: an authenticated request is only ever sent after getCredentials has
\* returned, with the token it returned; when the interactive flow has failed
\* (deadline, callback without code, token-exchange error) or could not start,
\* execute has thrown that error and no video or thumbnail request was sent.
C15_FlowFailureStopsUpload ==
    /\ sent # {} => Returned
    /\ \A r \in sent : r.token = credentials.access_token
    /\ promise = "rejected" =>
          /\ settledBy \in {"timeout", "no_code", "exchange_error"}
          /\ pc = "failed"
          /\ error = FlowError(settledBy)
          /\ ~Returned
          /\ sent = {}
    /\ error = "ConfigError" => pc = "failed" /\ sent = {}

\* C15 witness: the token exchange of the flow failed after a refresh had
\* failed too; execute threw the exchange error before any upload request
C15_Witness ==
    /\ promise = "rejected"
    /\ settledBy = "exchange_error"
    /\ error = "ExchangeError"
    /\ refreshFailed
    /\ sent = {}

\* C16: the loop never has issued more status requests than its budget, and
\* every status request is issued by the wake-up of a sleep of the polling
\* interval that the loop started for it: a request never goes out while no
\* sleep is pending, the first included.
C16_BudgetAndSleepFirst ==
    /\ [](/\ requests <= maxAttempts
          /\ requests <= sleeps
          /\ sleeps <= requests + 1
          /\ ppc = "requested" => sleeps = requests)
    /\ [][requests' # requests =>
            /\ requests' = requests + 1
            /\ ppc = "sleeping"
            /\ timer = IntervalOf(tool)
            /\ sleeps = requests + 1]_vars

\* C16 witness: pollForImage with a budget of MaxBudget has issued its last
\* status request, each after a sleep
C16_Witness ==
    /\ tool = "image"
    /\ maxAttempts = MaxBudget
    /\ ppc = "requested"
    /\ requests = maxAttempts
    /\ sleeps = maxAttempts

\* C17: once a status response has reported FAILED or ERROR, execute has
\* returned a failure with the task-failed error that carries the response;
\* the failing request was the last one: the attempts left were not used.
C17_FailedStopsPolling ==
    /\ [](lastPoll = "failed" =>
            /\ ppc = "returned"
            /\ ~result.success
            /\ result.error = "TaskFailed"
            /\ result.detail = "response"
            /\ requests = attempt + 1)
    /\ [][lastPoll = "failed" => requests' = requests]_vars

\* C17 witness: the thumbnail tool's second status response reported a
\* failure, with eighteen attempts left
C17_Witness ==
    /\ tool = "thumbnail"
    /\ lastPoll = "failed"
    /\ requests = 2
    /\ requests < maxAttempts
    /\ result.error = "TaskFailed"

\* C18 (as claimed): after a status response that reported completion with
\* no image URL to be read from the probed places, execute has returned the
\* completed-without-result failure; and a success always carries a
\* non-empty image URL.
C18_CompletedWithoutResultFails ==
    /\ lastPoll = "completed_without_result" =>
          /\ ppc = "returned"
          /\ ~result.success
          /\ result.error = "NoImage"
    /\ result.success => NonEmpty(result.imageUrl)

\* C19 (as claimed): when the operation has ended and its last status
\* response was a bad poll, it ended because the budget was used up, not
\* because of that poll.
C19_BadPollNeverFatal ==
    (ppc = "returned" /\ lastPoll = "unreachable") =>
        /\ result.error = "Timeout"
        /\ requests = maxAttempts

\* execute has returned after the polling loop was entered
PollingEnded ==
    /\ ppc = "returned"
    /\ result.error \notin {"SubmitFailed", "NoTaskId"}

\* C20 (as claimed): when polling has ended and no status response reported
\* a terminal status, exactly maxAttempts requests were issued and execute
\* returned the timeout failure, never a success.
C20_NonTerminalEndsInTimeout ==
    (PollingEnded /\ lastPoll \in {"none", "pending", "unreachable"}) =>
        /\ ~result.success
        /\ result.error = "Timeout"
        /\ requests = maxAttempts

\* C21: once a status response has reported completion with an image URL in
\* the places the tool probes, execute has returned that URL as a success and
\* the completing request was the last one: it is request attempt + 1, and
\* no status request follows it.
C21_CompletedReturnsPayload ==
    /\ [](lastPoll = "completed" =>
            /\ ppc = "returned"
            /\ result.success
            /\ result.imageUrl = "url"
            /\ requests = attempt + 1
            /\ requests <= maxAttempts)
    /\ [][(lastPoll \in {"completed", "failed"}) =>
            (requests' = requests)]_vars

\* C21 witness: two status responses of the image tool were not terminal and
\* the third reported completion with a URL
C21_Witness ==
    /\ tool = "image"
    /\ lastPoll = "completed"
    /\ requests = 3
    /\ sleeps = 3
    /\ result.success
    /\ result.imageUrl = "url"

\* C22 (as claimed): a submit answer that holds the task id, nested or at
\* the top level, is never answered with the missing-task-id failure; and
\* after a failed submission no sleep was started and no status request
\* issued.
C22_TaskIdProbedAtEachPath ==
    /\ taskIdAt \in {"nested", "top"} => result.error # "NoTaskId"
    /\ result.error \in {"NoTaskId", "SubmitFailed"} =>
          /\ ppc = "returned"
          /\ sleeps = 0
          /\ requests = 0

\* the primary upload was answered with success (line 208 passed): execute
\* is at the thumbnail step, or has left it
PrimarySucceeded ==
    \/ pc \in {"thumbnail_download", "thumbnail_sent", "done"}
    \/ /\ pc = "failed"
       /\ error \in {"ThumbnailDownloadFailed", "ThumbnailRequestFailed"}

\* C23 (as claimed): after a successful primary upload execute never throws:
\* it returns an object that holds the video identifier.
C23_ThumbnailFailureIsWarning ==
    /\ PrimarySucceeded => pc # "failed"
    /\ pc = "done" => "videoId" \in resultKeys

\* C24 (as claimed): while a remote thumbnail is being downloaded no
\* credential has been resolved and no upload request has been sent.
C24_InputsResolvedBeforeUpload ==
    pc = "thumbnail_download" =>
        /\ isUrl
        /\ ~Returned
        /\ sent = {}

\* a thumbnail request has been sent
ThumbnailSent == \E r \in sent : r.req = "thumbnail"

\* C25 (as claimed): a thumbnail request is only sent after the primary
\* upload succeeded, to an identifier its response contained; a rejected
\* primary upload fails execute without a thumbnail request.
C25_ThumbnailTargetsUploadedVideo ==
    /\ ThumbnailSent => PrimarySucceeded /\ videoId # Undefined
    /\ error = "UploadFailed" => pc = "failed" /\ ~ThumbnailSent


\* C26: TOKEN_FILE is rewritten atomically: a read of the file that runs
\* while saveToken writes it never meets a torn document, it gets the
\* whole previous document or the whole new one (or no file, before the
\* first write).
C26_ReadNeverTorn ==
    readerSaw # "torn"


\* C27: a missing client secret file is fatal and nothing is tried after
\* it: whenever the stored credential is not a cache hit, getCredentials
\* ends in the configuration error, which execute lets through to its
\* caller, and no network request was issued, no listener opened, no
\* authorization URL presented and nothing written to the token file; the
\* refresh and the interactive flow were each entered at most once.
C27_MissingSecretIsFatal ==
    /\ error = "ConfigError" =>
         /\ pc = "failed"
         /\ ~secretFileExists
         /\ netRequests = 0
         /\ sent = {}
         /\ listener = "none"
         /\ promise = "none"
         /\ ~urlPresented
         /\ writes = 0
         /\ oauthStarts = 1
         /\ refreshAttempts <= 1
    /\ (~secretFileExists /\ pc # "idle"
          /\ error \notin {"VideoNotFound", "ThumbnailNotFound"}) =>
         \/ error = "ConfigError"
         \/ retSource = "cache" /\ CacheHit(tokenData, StartTime)

\* the refresh of a stored credential and then the interactive flow both
\* failed on the missing client secret
C27_Witness ==
    /\ error = "ConfigError"
    /\ pc = "failed"
    /\ tokenFileExists
    /\ refreshFailed
    /\ refreshAttempts = 1
    /\ netRequests = 0



\* C28: once the interactive flow has ended in a failure (its promise is
\* rejected, in particular by the deadline), no later step writes the
\* token file, also not the token exchange of a callback that was accepted
\* before the deadline and is answered after it.
C28_FailedFlowWritesNothing ==
    [][(promise = "rejected") =>
         (/\ writes' = writes
          /\ tokenFile' = tokenFile
          /\ tokenFileExists' = tokenFileExists)]_vars



\* C29: every credential the tool writes to the token file, after a
\* refresh or after a token exchange, holds an access token and a numeric
\* expiry, whatever the token endpoint answered.
C29_StoredCredentialWellFormed ==
    writes > 0 =>
        /\ tokenFileExists
        /\ TruthyStr(tokenFile.access_token)
        /\ IsNum(tokenFile.expiry)



\* C30: for both generation tools execute throws only on a missing API key;
\* once that check has passed it returns, and what it returns is a success
\* exactly when it carries a non-empty image URL of a completed status
\* response; every failure is returned with success false, an empty image
\* URL and a message.
C30_ReturnsAfterKeyCheck ==
    /\ ppc = "thrown" => result.error = "ApiKeyNotSet"
    /\ ppc = "returned" =>
         /\ result.success <=> NonEmpty(result.imageUrl)
         /\ result.success => lastPoll = "completed"
         /\ ~result.success => /\ result.imageUrl = ""
                               /\ result.error # "none"


====
